---- MODULE Spec2Model ----
(***************************************************************************)
(* A model of the triangular-mesh core (Mesh.py: Mesh, EasyMesher,         *)
(* RectMesher) and of the backward-Euler heat solver (heat_solver.py).     *)
(*                                                                         *)
(* Python sequences are 0-based; TLA+ sequences are 1-based.  At(s, k) is  *)
(* the Python s[k].  Vertex and face indices keep their 0-based values.    *)
(* Areas are stored doubled (areas[f] = 2 * area) and totals are stored    *)
(* times six, so that area/2 and mean/3 stay integers.                     *)
(***************************************************************************)
EXTENDS Integers, Sequences, FiniteSets

VARIABLES
    \* ---- the Mesh object (Mesh.py) ----
    mesh_pc,          \* "none" | "built" | "error" (constructor or mesher raised)
    made_by,          \* who called the constructor, and with which arguments
    points,           \* self.points
    faces,            \* self.faces
    boundary,         \* self.boundary
    boundary_idxs,    \* self.boundary_idxs
    areas,            \* self.areas (doubled)
    edges,            \* self.edges
    fn_done,          \* whether the attribute face_neighbors exists
    face_neighbors,   \* self.face_neighbors
    tv_call,          \* the last call of calculate_total_value: its argument and result
    \* ---- the HeatSolver object (heat_solver.py) ----
    M, K, dt, num_iterations,
    result,           \* self.result
    pc,               \* "idle" | "loop": position inside solve
    args,             \* the arguments of the running call
    K_temp, b, u, t_values, u_values, i,
    outcome,          \* what the last finished call did: "none" | "returned" | "raised"
    calls,            \* how many times solve was called
    log               \* the caller's record of returned calls: <<args, result>>

meshVars == <<mesh_pc, made_by, points, faces, boundary, boundary_idxs, areas, edges,
              fn_done, face_neighbors, tv_call>>
heatVars == <<M, K, dt, num_iterations, result, pc, args, K_temp, b, u, t_values,
              u_values, i, outcome, calls, log>>
vars == <<meshVars, heatVars>>

(***************************************************************************)
(* Bounds of the model.                                                    *)
(***************************************************************************)
MaxFaces == 2      \* longest face list handed directly to Mesh(...)
MaxRes == 4        \* largest RectMesher resolution per axis
MaxLx == 3         \* EasyMesher: most lattice columns
MaxLy == 2         \* EasyMesher: most lattice rows
MaxIter == 2       \* largest num_iterations
MaxCalls == 2      \* most solve calls in one behaviour

(***************************************************************************)
(* Sequence helpers.                                                       *)
(***************************************************************************)
At(s, k) == s[k + 1]

Range(s) == {s[k] : k \in DOMAIN s}

RECURSIVE SeqSum(_)
SeqSum(s) == IF s = <<>> THEN 0 ELSE Head(s) + SeqSum(Tail(s))

RECURSIVE Flatten(_)
Flatten(ss) == IF ss = <<>> THEN <<>> ELSE Head(ss) \o Flatten(Tail(ss))

Count(s, x) == Cardinality({k \in DOMAIN s : s[k] = x})

Abs(x) == IF x < 0 THEN -x ELSE x

\* sorted(edge) for a two-element list
sorted(e) == IF e[1] <= e[2] THEN <<e[1], e[2]>> ELSE <<e[2], e[1]>>

\* np.unique: the distinct values, ascending
RECURSIVE SortedSeq(_)
SortedSeq(S) ==
    IF S = {} THEN <<>>
    ELSE LET m == CHOOSE x \in S : \A y \in S : x <= y
         IN <<m>> \o SortedSeq(S \ {m})

unique(s) == SortedSeq(Range(s))

(***************************************************************************)
(* Mesh (Mesh.py).                                                         *)
(***************************************************************************)

\* calculate_triangle_area (utils.helper): the cross-product formula, unsigned;
\* doubled here.
calculate_triangle_area(p) ==
    Abs((p[2][1] - p[1][1]) * (p[3][2] - p[1][2])
        - (p[3][1] - p[1][1]) * (p[2][2] - p[1][2]))

\* the three sides of a face, in the order of _get_all_edges: [face[i], face[(i+1)%3]]
Sides(face) == [s \in 1..3 |-> <<face[s], face[(s % 3) + 1]>>]

\* _get_all_edges without the sort
get_all_edges_unsorted(fs) ==
    {Sides(fs[f])[s] : f \in DOMAIN fs, s \in 1..3}

\* Mesh._get_all_edges: a set of sorted tuples
_get_all_edges(fs) ==
    {sorted(Sides(fs[f])[s]) : f \in DOMAIN fs, s \in 1..3}

\* how many faces have the unordered pair e as one of their sides
SideCount(fs, e) ==
    Cardinality({f \in DOMAIN fs : \E s \in 1..3 : sorted(Sides(fs[f])[s]) = sorted(e)})

\* get_boundary_from_points_faces (utils.helper): the sides that belong to exactly
\* one face, each oriented as in its face, in face order.
get_boundary_from_points_faces(p, fs) ==
    Flatten([f \in DOMAIN fs |->
        SelectSeq(Sides(fs[f]), LAMBDA e : SideCount(fs, e) = 1)])

\* points[face] raises IndexError when an index is past the end of points
IndexInRange(p, fs) ==
    \A f \in DOMAIN fs : \A c \in 1..3 : fs[f][c] < Len(p)

\* who built the mesh: the constructor's caller, the resolution or lattice size it
\* was given, and the lattice faces the outline test put outside
Caller(by, res, outside) == [by |-> by, res |-> res, outside |-> outside]

None == [none |-> TRUE, val6 |-> 0]
NoCall == [kind |-> "none", u |-> <<>>, ret |-> None]

NoMesh ==
    /\ points' = <<>>
    /\ faces' = <<>>
    /\ boundary' = <<>>
    /\ boundary_idxs' = {}
    /\ areas' = <<>>
    /\ edges' = {}

\* Mesh.__init__(points, faces, boundary), called by `who`
MeshInit(who, p, fs, bd) ==
    /\ made_by' = who
    /\ fn_done' = FALSE
    /\ face_neighbors' = <<>>
    /\ tv_call' = NoCall
    /\ IF IndexInRange(p, fs)
       THEN /\ mesh_pc' = "built"
            /\ points' = p
            /\ faces' = fs
            /\ boundary' = bd
            /\ boundary_idxs' = UNION {Range(bd[k]) : k \in DOMAIN bd}
            /\ areas' = [f \in DOMAIN fs |->
                   calculate_triangle_area([c \in 1..3 |-> At(p, fs[f][c])])]
            /\ edges' = _get_all_edges(fs)
       ELSE /\ mesh_pc' = "error"
            /\ NoMesh

\* a mesher raised before it reached the constructor
MesherRaises(who) ==
    /\ made_by' = who
    /\ mesh_pc' = "error"
    /\ fn_done' = FALSE
    /\ face_neighbors' = <<>>
    /\ tv_call' = NoCall
    /\ NoMesh

\* np.where(self.faces == v)[0]: the row of every entry equal to v, row by row
RowsWhere(fs, v) ==
    Flatten([r \in DOMAIN fs |->
        Flatten([c \in 1..3 |-> IF fs[r][c] = v THEN <<r - 1>> ELSE <<>>])])

\* the neighbour list when everything that appears at least twice is kept
NeighborsOf_atleast(fs, f) ==
    LET ext == Flatten([c \in 1..3 |-> RowsWhere(fs, fs[f][c])])
    IN SelectSeq(ext, LAMBDA idx : Count(ext, idx) >= 2)

\* the list calculate_face_neighbors leaves for one face
NeighborsOf(fs, f) ==
    LET ext == Flatten([c \in 1..3 |-> RowsWhere(fs, fs[f][c])])
    IN SelectSeq(ext, LAMBDA idx : Count(ext, idx) = 2)

\* Mesh.calculate_face_neighbors
calculate_face_neighbors ==
    /\ mesh_pc = "built"
    /\ ~fn_done
    /\ fn_done' = TRUE
    /\ face_neighbors' = [f \in DOMAIN faces |-> NeighborsOf(faces, f)]
    /\ UNCHANGED <<mesh_pc, made_by, points, faces, boundary, boundary_idxs, areas,
                   edges, tv_call>>
    /\ UNCHANGED heatVars

\* the value calculate_total_value returns (times six)
TotalValue(p, fs, ar, uu) ==
    IF Len(uu) = Len(fs)
    THEN [none |-> FALSE,
          val6 |-> SeqSum([f \in DOMAIN fs |-> 3 * ar[f] * uu[f]])]
    ELSE IF Len(uu) = Len(p)
    THEN [none |-> FALSE,
          val6 |-> SeqSum([f \in DOMAIN fs |->
                      ar[f] * SeqSum([c \in 1..3 |-> At(uu, fs[f][c])])])]
    ELSE None

\* the fields a caller passes: constant ones and single-entry indicators
Fields(n) ==
    {[k \in 1..n |-> 1]} \cup {[k \in 1..n |-> IF k = j THEN 1 ELSE 0] : j \in 1..n}

\* Mesh.calculate_total_value(u); `kind` is what the caller means u to be
calculate_total_value ==
    /\ mesh_pc = "built"
    /\ \E kind \in {"face", "vertex", "other"} :
         \E uu \in Fields(CASE kind = "face" -> Len(faces)
                            [] kind = "vertex" -> Len(points)
                            [] OTHER -> Len(faces) + Len(points) + 1) :
            tv_call' = [kind |-> kind, u |-> uu,
                        ret |-> TotalValue(points, faces, areas, uu)]
    /\ UNCHANGED <<mesh_pc, made_by, points, faces, boundary, boundary_idxs, areas,
                   edges, fn_done, face_neighbors>>
    /\ UNCHANGED heatVars

(***************************************************************************)
(* Direct construction: Mesh(points, faces, boundary) on arbitrary input.  *)
(***************************************************************************)
\* three points; the index one past their end is among the face indices tried
InputPoints == << <<0, 0>>, <<1, 0>>, <<0, 1>> >>

VertexInputs == 0..Len(InputPoints)

FaceInputs ==
    UNION {[1..n -> VertexInputs \X VertexInputs \X VertexInputs] : n \in 0..MaxFaces}

BoundaryInputs ==
    {<< <<0, 1>>, <<1, 2>>, <<2, 0>> >>, << <<0, 1>>, <<1, Len(InputPoints)>> >>}

Construct ==
    /\ mesh_pc = "none"
    /\ \E fs \in FaceInputs, bd \in BoundaryInputs :
          MeshInit(Caller("Mesh", <<0, 0>>, {}), InputPoints, fs, bd)
    /\ UNCHANGED heatVars

(***************************************************************************)
(* RectMesher and EasyMesher (Mesh.py).  A lattice point's coordinates are *)
(* its column and row <<i, j>>: x_range and y_range are increasing.        *)
(***************************************************************************)

\* get_index with the row length off by one
get_index_short(ii, jj, w) == jj * (w - 1) + ii

\* get_index(i, j) of both meshers; w is resolution[0], resp. len(x_range)
get_index(ii, jj, w) == jj * w + ii

\* points = [[x, y] for y in y_range for x in x_range]
LatticePoints(w, h) ==
    IF w <= 0 \/ h <= 0 THEN <<>>
    ELSE [k \in 1..(w * h) |-> <<(k - 1) % w, (k - 1) \div w>>]

\* the two faces of every cell, i in the outer loop and j in the inner one
LatticeFaces(w, h) ==
    Flatten([ci \in 1..(w - 1) |-> Flatten([cj \in 1..(h - 1) |->
        LET ii == ci - 1
            jj == cj - 1
        IN << <<get_index(ii, jj, w), get_index(ii + 1, jj, w),
                get_index(ii + 1, jj + 1, w)>>,
              <<get_index(ii, jj, w), get_index(ii + 1, jj + 1, w),
                get_index(ii, jj + 1, w)>> >>])])

\* RectMesher(corners, (nx, ny)).mesh()
RectMesherMesh ==
    /\ mesh_pc = "none"
    /\ \E nx \in (-1)..MaxRes, ny \in (-1)..MaxRes :
         IF nx < 0 \/ ny < 0
         THEN \* np.linspace: ValueError
              MesherRaises(Caller("RectMesher", <<nx, ny>>, {}))
         ELSE \E p \in {LatticePoints(nx, ny)}, fs \in {LatticeFaces(nx, ny)} :
                 \E bd \in {get_boundary_from_points_faces(p, fs)} :
                    MeshInit(Caller("RectMesher", <<nx, ny>>, {}), p, fs, bd)
    /\ UNCHANGED heatVars

\* faces.remove(face): drops the first entry equal to face
RECURSIVE RemoveFirst(_, _)
RemoveFirst(fs, face) ==
    IF fs = <<>> THEN <<>>
    ELSE IF Head(fs) = face THEN Tail(fs)
    ELSE <<Head(fs)>> \o RemoveFirst(Tail(fs), face)

RECURSIVE RemoveAll(_, _)
RemoveAll(fs, removed) ==
    IF removed = <<>> THEN fs
    ELSE RemoveAll(RemoveFirst(fs, Head(removed)), Tail(removed))

\* the faces EasyMesher keeps: `outside` holds the positions (from 1) of the faces
\* with an offcenter that point_in_polygon puts outside the outline
EasyKept(w, h, outside) ==
    LET fs == LatticeFaces(w, h)
        removed_faces == SelectSeq([k \in DOMAIN fs |-> IF k \in outside THEN fs[k] ELSE <<>>],
                                   LAMBDA f : f # <<>>)
    IN RemoveAll(fs, removed_faces)

\* used_point_idxs without np.unique
used_point_idxs_flat(fs) == Flatten(fs)

\* used_point_idxs = np.unique(np.array(faces).flatten())
used_point_idxs(fs) == unique(Flatten(fs))

\* idx_map = {old: new for new, old in enumerate(used_point_idxs)}
idx_map(used) ==
    [old \in Range(used) |->
        (CHOOSE k \in DOMAIN used :
            used[k] = old /\ \A k2 \in DOMAIN used : k2 > k => used[k2] # old) - 1]

\* the renumbered mesh data of lines 209-214, from the faces that were kept
\* (a set with one element: the value is computed once)
Compacted(lx, ly, kept) ==
    {[points |-> p, faces |-> fs, boundary |-> get_boundary_from_points_faces(p, fs)] :
        p \in {[k \in DOMAIN used |-> At(LatticePoints(lx, ly), used[k])] :
                  used \in {used_point_idxs(kept)}},
        fs \in {[f \in DOMAIN kept |-> [c \in 1..3 |-> im[kept[f][c]]]] :
                  im \in {idx_map(used_point_idxs(kept))}}}

\* EasyMesher(outline, approx_triangles).mesh() on a lattice of lx by ly points
EasyMesherMesh ==
    /\ mesh_pc = "none"
    /\ \E lx \in 1..MaxLx, ly \in 1..MaxLy :
         \E outside \in SUBSET (1..Len(LatticeFaces(lx, ly))) :
            \E kept \in {EasyKept(lx, ly, outside)} :
               IF kept = <<>>
               THEN \* points[empty float array]: IndexError
                    MesherRaises(Caller("EasyMesher", <<lx, ly>>, outside))
               ELSE \E m \in Compacted(lx, ly, kept) :
                       MeshInit(Caller("EasyMesher", <<lx, ly>>, outside),
                                m.points, m.faces, m.boundary)
    /\ UNCHANGED heatVars

MeshInitState ==
    /\ mesh_pc = "none"
    /\ made_by = Caller("nobody", <<0, 0>>, {})
    /\ points = <<>>
    /\ faces = <<>>
    /\ boundary = <<>>
    /\ boundary_idxs = {}
    /\ areas = <<>>
    /\ edges = {}
    /\ fn_done = FALSE
    /\ face_neighbors = <<>>
    /\ tv_call = NoCall

(***************************************************************************)
(* HeatSolver (heat_solver.py).  M and K are 2 x 2; a field is a vector of *)
(* fractions with a common denominator, [n |-> <<n1, n2>>, d |-> d], kept  *)
(* in lowest terms with d > 0, so equal fields are equal records.          *)
(***************************************************************************)
RECURSIVE Gcd(_, _)
Gcd(x, y) == IF y = 0 THEN Abs(x) ELSE Gcd(y, x % Abs(y))

Norm(n, d) ==
    LET g == Gcd(Gcd(n[1], n[2]), d)
        sg == IF d < 0 THEN -1 ELSE 1
    IN [n |-> <<(sg * n[1]) \div g, (sg * n[2]) \div g>>, d |-> (sg * d) \div g]

MatAdd(A, B) == [r \in 1..2 |-> [c \in 1..2 |-> A[r][c] + B[r][c]]]
MatScale(A, k) == [r \in 1..2 |-> [c \in 1..2 |-> A[r][c] * k]]
MatVec(A, v) == [r \in 1..2 |-> A[r][1] * v[1] + A[r][2] * v[2]]
Det(A) == A[1][1] * A[2][2] - A[1][2] * A[2][1]
Adj(A) == << <<A[2][2], -A[1][2]>>, <<-A[2][1], A[1][1]>> >>

\* the system of line 43: M + K_temp * dt
System(MM, KK, step) == MatAdd(MM, MatScale(KK, step))

\* np.linalg.solve(M + K_temp * dt, M @ u + b * dt), for a regular system
BackwardEuler(MM, KK, step, bb, uu) ==
    LET A == System(MM, KK, step)
        rhs == [r \in 1..2 |-> MatVec(MM, uu.n)[r] + bb[r] * step * uu.d]
    IN Norm(MatVec(Adj(A), rhs), uu.d * Det(A))

\* the time stamp taken before the step instead of after it
TimeStamp_before(step, it) == step * it

\* the time stamp appended in iteration i (line 44)
TimeStamp(step, it) == step * (it + 1)

\* self.K when K_temp is self.K itself and not a copy
SelfKAfterAdd_inplace(KK, R) == MatAdd(KK, R)

\* self.K after `K_temp += R`: K_temp is a copy (line 26), K keeps its value
SelfKAfterAdd(KK, R) == KK

NoRobin == [given |-> FALSE, R |-> << <<0, 0>>, <<0, 0>> >>, r |-> <<0, 0>>]
NoResult == [set |-> FALSE, t_values |-> <<>>, u_values |-> <<>>]
NoArgs == [u_initial |-> [n |-> <<0, 0>>, d |-> 1], robin_bc |-> NoRobin, load |-> <<0, 0>>]

\* HeatSolverResult(t_values, u_values)
HeatSolverResult(ts, us) == [set |-> TRUE, t_values |-> ts, u_values |-> us]

\* what the constructor is given
MassInputs == { << <<2, 1>>, <<1, 2>> >>, << <<0, 0>>, <<0, 0>> >> }
StiffnessInputs == { << <<1, -1>>, <<-1, 1>> >>, << <<0, 0>>, <<0, 0>> >> }
DtInputs == {1, 2}

\* what solve is given: u_initial, the assembled boundary terms of robin_bc (or
\* None), and the assembled load vector of load_function
FieldInputs == { [n |-> <<1, 0>>, d |-> 1], [n |-> <<1, 1>>, d |-> 1] }
RobinInputs == { NoRobin,
                 [given |-> TRUE, R |-> << <<2, 1>>, <<1, 2>> >>, r |-> <<1, 1>>] }
LoadInputs == { <<0, 0>>, <<1, 0>> }

HeatInitState ==
    /\ result = NoResult
    /\ pc = "idle"
    /\ args = NoArgs
    /\ K_temp = << <<0, 0>>, <<0, 0>> >>
    /\ b = <<0, 0>>
    /\ u = NoArgs.u_initial
    /\ t_values = <<>>
    /\ u_values = <<>>
    /\ i = 0
    /\ outcome = "none"
    /\ calls = 0
    /\ log = <<>>

\* HeatSolver.__init__
HeatSolverInit ==
    /\ M \in MassInputs
    /\ K \in StiffnessInputs
    /\ dt \in DtInputs
    /\ num_iterations \in 0..MaxIter
    /\ HeatInitState

\* solve, lines 22-39: the set-up before the loop
SolveCall ==
    /\ pc = "idle"
    /\ calls < MaxCalls
    /\ \E u0 \in FieldInputs, rb \in RobinInputs, ld \in LoadInputs :
         /\ args' = [u_initial |-> u0, robin_bc |-> rb, load |-> ld]
         /\ K_temp' = IF rb.given THEN MatAdd(K, rb.R) ELSE K
         /\ K' = IF rb.given THEN SelfKAfterAdd(K, rb.R) ELSE K
         /\ b' = IF rb.given THEN [r \in 1..2 |-> ld[r] + rb.r[r]] ELSE ld
         /\ u' = u0
         /\ t_values' = <<0>>
         /\ u_values' = <<u0>>
    /\ i' = 0
    /\ pc' = "loop"
    /\ calls' = calls + 1
    /\ UNCHANGED <<M, dt, num_iterations, result, outcome, log>>
    /\ UNCHANGED meshVars

\* one iteration of the loop, lines 41-46, when the system is regular
SolveStep ==
    /\ pc = "loop"
    /\ i < num_iterations
    /\ Det(System(M, K_temp, dt)) # 0
    /\ u' = BackwardEuler(M, K_temp, dt, b, u)
    /\ t_values' = Append(t_values, TimeStamp(dt, i))
    /\ u_values' = Append(u_values, u')
    /\ i' = i + 1
    /\ UNCHANGED <<M, K, dt, num_iterations, result, pc, args, K_temp, b, outcome,
                   calls, log>>
    /\ UNCHANGED meshVars

\* a failing step that still stores the series recorded so far
SolveRaise_partial ==
    /\ pc = "loop"
    /\ i < num_iterations
    /\ Det(System(M, K_temp, dt)) = 0
    /\ pc' = "idle"
    /\ outcome' = "raised"
    /\ result' = HeatSolverResult(t_values, u_values)
    /\ UNCHANGED <<M, K, dt, num_iterations, args, K_temp, b, u, t_values,
                   u_values, i, calls, log>>
    /\ UNCHANGED meshVars

\* line 43 on a singular system: np.linalg.solve raises LinAlgError, which
\* nothing in solve catches
SolveRaise ==
    /\ pc = "loop"
    /\ i < num_iterations
    /\ Det(System(M, K_temp, dt)) = 0
    /\ pc' = "idle"
    /\ outcome' = "raised"
    /\ UNCHANGED <<M, K, dt, num_iterations, result, args, K_temp, b, u, t_values,
                   u_values, i, calls, log>>
    /\ UNCHANGED meshVars

\* lines 48-49: the loop is over
SolveReturn ==
    /\ pc = "loop"
    /\ i = num_iterations
    /\ result' = HeatSolverResult(t_values, u_values)
    /\ log' = Append(log, [args |-> args, result |-> result'])
    /\ pc' = "idle"
    /\ outcome' = "returned"
    /\ UNCHANGED <<M, K, dt, num_iterations, args, K_temp, b, u, t_values, u_values,
                   i, calls>>
    /\ UNCHANGED meshVars

(***************************************************************************)
(* Specifications.                                                         *)
(***************************************************************************)
\* no solver is in use
HeatParked ==
    /\ M = << <<0, 0>>, <<0, 0>> >>
    /\ K = << <<0, 0>>, <<0, 0>> >>
    /\ dt = 1
    /\ num_iterations = 0
    /\ HeatInitState

\* a mesh made by the constructor or by a mesher, and its face neighbours
Init == MeshInitState /\ HeatParked

Next ==
    \/ Construct
    \/ RectMesherMesh
    \/ EasyMesherMesh
    \/ calculate_face_neighbors

Spec == Init /\ [][Next]_vars

\* a mesh made by a mesher, and the totals of fields on it
NextTotal ==
    \/ RectMesherMesh
    \/ EasyMesherMesh
    \/ calculate_total_value

SpecTotal == Init /\ [][NextTotal]_vars

\* a heat solver and its calls
InitHeat == MeshInitState /\ HeatSolverInit

NextHeat ==
    \/ SolveCall
    \/ SolveStep
    \/ SolveRaise
    \/ SolveReturn

SpecHeat == InitHeat /\ [][NextHeat]_vars

(***************************************************************************)
(* Properties of Mesh.py.                                                  *)
(***************************************************************************)
Verts(face) == {face[1], face[2], face[3]}

DistinctVerts == \A f \in DOMAIN faces : Cardinality(Verts(faces[f])) = 3

Unordered(e) == {e[1], e[2]}

\* the stored edges that are a side of exactly one face
OneSided ==
    {e \in edges :
        Cardinality({f \in DOMAIN faces :
            \E s \in 1..3 : Unordered(Sides(faces[f])[s]) = Unordered(e)}) = 1}

\* the edges along the rim of an nx by ny lattice, smaller index first
Perimeter(nx, ny) ==
    {<<j * nx + ii, j * nx + ii + 1>> : ii \in 0..(nx - 2), j \in {0, ny - 1}}
    \cup {<<j * nx + ii, (j + 1) * nx + ii>> : ii \in {0, nx - 1}, j \in 0..(ny - 2)}

\* C2: after calculate_face_neighbors on a mesh whose faces have three distinct
\* vertices, face j is listed for face i exactly when i # j and the two faces
\* share exactly two vertices; so no face lists itself and the relation is
\* symmetric.
C2_FaceNeighbors ==
    (fn_done /\ DistinctVerts) =>
        /\ \A f \in DOMAIN faces : \A g \in DOMAIN faces :
             ((g - 1) \in Range(face_neighbors[f]))
                <=> (f # g /\ Cardinality(Verts(faces[f]) \cap Verts(faces[g])) = 2)
        /\ \A f \in DOMAIN faces : (f - 1) \notin Range(face_neighbors[f])
        /\ \A f \in DOMAIN faces : \A g \in DOMAIN faces :
             ((g - 1) \in Range(face_neighbors[f]))
                <=> ((f - 1) \in Range(face_neighbors[g]))

\* a mesh with a pair of faces sharing an edge and a pair sharing one corner only
C2_Witness ==
    /\ fn_done
    /\ DistinctVerts
    /\ \E f \in DOMAIN faces : \E g \in DOMAIN faces :
         /\ Cardinality(Verts(faces[f]) \cap Verts(faces[g])) = 1
         /\ (g - 1) \notin Range(face_neighbors[f])
    /\ \E f \in DOMAIN faces : \E g \in DOMAIN faces :
         /\ f # g
         /\ (g - 1) \in Range(face_neighbors[f])

\* C3: the edges of a constructed mesh hold each unordered vertex pair at most
\* once, every stored edge has its smaller index first, every side of every
\* face is stored, and nothing is stored that is not a side of a face.
C3_Edges ==
    mesh_pc = "built" =>
        /\ \A e1 \in edges : \A e2 \in edges :
             Unordered(e1) = Unordered(e2) => e1 = e2
        /\ \A e \in edges : e[1] <= e[2]
        /\ \A f \in DOMAIN faces : \A s \in 1..3 :
             \E e \in edges : Unordered(e) = Unordered(Sides(faces[f])[s])
        /\ \A e \in edges : \E f \in DOMAIN faces : \E s \in 1..3 :
             Unordered(e) = Unordered(Sides(faces[f])[s])

\* two faces given in different orders that run along one side in opposite directions
C3_Witness ==
    /\ mesh_pc = "built"
    /\ made_by.by = "Mesh"
    /\ \E f \in DOMAIN faces : \E g \in DOMAIN faces : \E s \in 1..3 : \E t \in 1..3 :
         /\ f # g
         /\ Sides(faces[f])[s][1] > Sides(faces[f])[s][2]
         /\ Sides(faces[g])[t] = <<Sides(faces[f])[s][2], Sides(faces[f])[s][1]>>
    /\ Cardinality(edges) < 3 * Len(faces)

\* C4: for a resolution (nx, ny) with nx >= 2 and ny >= 2, RectMesher.mesh gives
\* nx*ny points and 2*(nx-1)*(ny-1) faces with every index in 0..nx*ny-1, and the
\* edges of exactly one face are exactly the 2*(nx-1) + 2*(ny-1) edges of the rim.
C4_RectMesh ==
    (made_by.by = "RectMesher" /\ made_by.res[1] >= 2 /\ made_by.res[2] >= 2) =>
        LET nx == made_by.res[1]
            ny == made_by.res[2]
        IN /\ mesh_pc = "built"
           /\ Len(points) = nx * ny
           /\ Len(faces) = 2 * (nx - 1) * (ny - 1)
           /\ \A f \in DOMAIN faces : \A c \in 1..3 : faces[f][c] \in 0..(nx * ny - 1)
           /\ OneSided = Perimeter(nx, ny)
           /\ Cardinality(OneSided) = 2 * (nx - 1) + 2 * (ny - 1)

\* resolution (3, 3): 9 points, 8 faces, 8 edges on the rim
C4_Witness ==
    /\ made_by.by = "RectMesher"
    /\ made_by.res = <<3, 3>>
    /\ mesh_pc = "built"
    /\ Len(points) = 9
    /\ Len(faces) = 8
    /\ Cardinality(OneSided) = 8

\* C5: RectMesher rejects a resolution with nx < 2 or ny < 2: no Mesh is returned.
C5_DegenerateResolutionRejected ==
    (made_by.by = "RectMesher" /\ (made_by.res[1] < 2 \/ made_by.res[2] < 2)) =>
        mesh_pc = "error"

\* C6: the constructor rejects malformed geometry, so a constructed Mesh has no
\* face of zero area, no face or boundary index outside 0..len(points)-1, and no
\* edge that is a side of more than two faces.
C6_MalformedGeometryRejected ==
    mesh_pc = "built" =>
        /\ \A f \in DOMAIN faces : areas[f] > 0
        /\ \A f \in DOMAIN faces : \A c \in 1..3 : faces[f][c] \in 0..(Len(points) - 1)
        /\ \A k \in DOMAIN boundary : \A c \in 1..2 :
             boundary[k][c] \in 0..(Len(points) - 1)
        /\ \A e \in edges :
             Cardinality({f \in DOMAIN faces :
                 \E s \in 1..3 : Unordered(Sides(faces[f])[s]) = Unordered(e)}) <= 2

\* the lattice faces EasyMesher kept, with their lattice indices, in lattice order
KeptLatticeFaces ==
    LET all == LatticeFaces(made_by.res[1], made_by.res[2])
        pos == SortedSeq(DOMAIN all \ made_by.outside)
    IN [k \in DOMAIN pos |-> all[pos[k]]]

LatticeCoord(k, w) == <<k % w, k \div w>>

\* C8: in the mesh EasyMesher returns every index 0..len(points)-1 occurs in a
\* face, every face index is below len(points), no two points coincide, and each
\* face has the lattice coordinates it had before the renumbering.
C8_DenseRenumbering ==
    (made_by.by = "EasyMesher" /\ mesh_pc = "built") =>
        LET old == KeptLatticeFaces
        IN /\ \A k \in 0..(Len(points) - 1) :
                \E f \in DOMAIN faces : k \in Verts(faces[f])
           /\ \A f \in DOMAIN faces : \A c \in 1..3 : faces[f][c] \in 0..(Len(points) - 1)
           /\ \A k1 \in DOMAIN points : \A k2 \in DOMAIN points :
                points[k1] = points[k2] => k1 = k2
           /\ Len(faces) = Len(old)
           /\ \A f \in DOMAIN faces : \A c \in 1..3 :
                At(points, faces[f][c]) = LatticeCoord(old[f][c], made_by.res[1])

\* lattice points were dropped and a face index changed
C8_Witness ==
    /\ made_by.by = "EasyMesher"
    /\ mesh_pc = "built"
    /\ Len(points) < made_by.res[1] * made_by.res[2]
    /\ \E f \in DOMAIN faces : \E c \in 1..3 : faces[f][c] # KeptLatticeFaces[f][c]

\* C9: calculate_total_value returns, for a field with one value per point, the
\* sum over the faces of area times the mean of the three vertex values, and for
\* a field with one value per face the sum of area times the face's value, also
\* when the mesh has as many faces as points.  (Totals are times six.)
C9_TotalValueBothArities ==
    /\ tv_call.kind = "vertex" =>
         /\ ~tv_call.ret.none
         /\ tv_call.ret.val6 =
              SeqSum([f \in DOMAIN faces |->
                  areas[f] * (At(tv_call.u, faces[f][1]) + At(tv_call.u, faces[f][2])
                              + At(tv_call.u, faces[f][3]))])
    /\ tv_call.kind = "face" =>
         /\ ~tv_call.ret.none
         /\ tv_call.ret.val6 = SeqSum([f \in DOMAIN faces |-> 3 * areas[f] * tv_call.u[f]])

(***************************************************************************)
(* Properties of heat_solver.py.                                           *)
(***************************************************************************)

\* C1: a call of solve that completes returns t_values and u_values of exactly
\* num_iterations + 1 entries each, with u_values[0] = u_initial and
\* t_values[k] = k * dt for every k; inside the loop the two have equal length.
C1_TimeSeries ==
    /\ pc = "loop" => (Len(t_values) = i + 1 /\ Len(u_values) = i + 1)
    /\ \A c \in DOMAIN log :
         LET r == log[c].result
         IN /\ r.set
            /\ Len(r.t_values) = num_iterations + 1
            /\ Len(r.u_values) = num_iterations + 1
            /\ At(r.u_values, 0) = log[c].args.u_initial
            /\ \A k \in 0..num_iterations : At(r.t_values, k) = k * dt
    /\ outcome = "returned" => (log # <<>> /\ result = log[Len(log)].result)

\* a call of at least two steps, with a step size other than 1, has returned
C1_Witness ==
    /\ outcome = "returned"
    /\ num_iterations >= 2
    /\ dt = 2
    /\ Len(result.t_values) = num_iterations + 1
    /\ At(result.t_values, 2) = 4

\* C7: when the system M + dt * K_eff of a step is singular, the call ends in an
\* error, returns nothing and leaves the stored result as it was; the stored
\* result changes only when a call has done all num_iterations steps.
C7_FailedSolveKeepsResult ==
    [][ /\ (pc = "loop" /\ i < num_iterations /\ Det(System(M, K_temp, dt)) = 0) =>
             (pc' = "idle" /\ outcome' = "raised" /\ result' = result /\ log' = log)
        /\ result' # result =>
             /\ pc = "loop"
             /\ i = num_iterations
             /\ outcome' = "returned"
             /\ Len(result'.t_values) = num_iterations + 1
             /\ Len(result'.u_values) = num_iterations + 1 ]_vars

\* a call failed after an earlier call had stored its result, which is still there
C7_Witness ==
    /\ outcome = "raised"
    /\ pc = "idle"
    /\ result.set
    /\ result = log[Len(log)].result
    /\ Len(t_values) < num_iterations + 1

\* C10: solve leaves M, K, dt, num_iterations and the caller's u_initial as they
\* were, also with robin_bc; two calls with the same arguments return the same
\* t_values and u_values.
C10_SolveLeavesSolverUnchanged ==
    [][ /\ M' = M
        /\ K' = K
        /\ dt' = dt
        /\ num_iterations' = num_iterations
        /\ (pc = "loop" /\ pc' = "loop") => args' = args
        /\ pc' = "loop" => At(u_values', 0) = args'.u_initial
        /\ \A c1 \in DOMAIN log' : \A c2 \in DOMAIN log' :
             log'[c1].args = log'[c2].args => log'[c1].result = log'[c2].result ]_vars

\* two calls with the same arguments, robin_bc among them, have returned, and the
\* boundary matrix changed the outcome
C10_Witness ==
    /\ Len(log) >= 2
    /\ log[1].args = log[2].args
    /\ log[1].args.robin_bc.given
    /\ num_iterations >= 1
    /\ log[1].result = log[2].result
    /\ At(log[1].result.u_values, 1) # log[1].args.u_initial

====
